---- MODULE Spec2Model ----
(***************************************************************************)
(* A model of sag_to_cor_hor.py: the script that re-slices a stack of      *)
(* sagittal TIFF sections into coronal (AP) or horizontal (DV) sections.   *)
(*                                                                         *)
(* The state is the directory of source sections (raw_store), the          *)
(* directory of generated sections (store) and, for every invocation of    *)
(* the script, the values of its variables and the statement it is at.     *)
(* Every action is one statement (or one run of statements without I/O)    *)
(* of the script, so that an invocation can be stopped, can fail and can   *)
(* interleave with another invocation between any two accesses to the      *)
(* directories.  io.imread and io.imsave are single steps.                 *)
(***************************************************************************)
EXTENDS Integers, Sequences, FiniteSets, TLC

\* ------------------------------------------------------------------ bounds
MaxN == 2          \* most source sections in raw_path
MaxH == 2          \* most rows of a source section
MaxW == 2          \* most columns of a source section
MaxStale == 1      \* most sections per direction left in out_path beforehand
MaxRuns == 2       \* invocations run one after another
NumInv == 2        \* invocations run side by side

VARIABLES
    raw_store,     \* raw_path: the source sections, in img_list order
    store,         \* out_path: store[d][iz] is the file d-<iz>.tif, or NoPlane
    stale,         \* how many sections per direction out_path held at first
    dirs,          \* the directories that exist among out_path, AP and DV
    invs,          \* invs[p]: the variables of invocation p of the script
    prev,          \* the invocation that ended before the running one
    launched       \* how many invocations have been started

vars == <<raw_store, store, stale, dirs, invs, prev, launched>>

Directions == {"AP", "DV"}

\* The processes that can run the script; the first runs the jobs that come
\* one after another.
Procs == 1 .. NumInv

\* ------------------------------------------------------------------ images
\* A decoded image: its shape (ny rows, nx columns), dtype and pixels
\* px[r][c].
NoPlane == [ny |-> 0, nx |-> 0, dtype |-> "none", px |-> <<>>]

Rows(n) == 0 .. (n - 1)

DtypeMod(dtype) == IF dtype = "uint8" THEN 256 ELSE 65536

\* numpy's cast on assignment into an array of another dtype: silent, modular.
Cast(v, dtype) == v % DtypeMod(dtype)

zeros(ny, nx, dtype) ==
    [ny |-> ny, nx |-> nx, dtype |-> dtype,
     px |-> [r \in Rows(ny) |-> [c \in Rows(nx) |-> 0]]]

\* The pixel of source section i at (r, c): all different, none zero.
SrcPixel(base, i, r, c) == base + 1 + (i * (MaxH + 1) + r) * (MaxW + 1) + c

RawImage(ny, nx, dtype, i) ==
    [ny |-> ny, nx |-> nx, dtype |-> dtype,
     px |-> [r \in Rows(ny) |-> [c \in Rows(nx) |->
                SrcPixel(IF dtype = "uint8" THEN 0 ELSE 256, i, r, c)]]]

\* A stack of n sections that all have the shape (ny, nx) and dtype uint8.
Stack(n, ny, nx) == [k \in 1 .. n |-> RawImage(ny, nx, "uint8", k - 1)]

\* The ways one section of a stack can differ from the others.
Kinds == {"taller", "shorter", "wider", "narrower", "dtype"}

\* Section i of a stack of (ny, nx) uint8 sections, differing in one way.
Deviant(kind, ny, nx, i) ==
    RawImage(IF kind = "taller" THEN ny + 1
             ELSE IF kind = "shorter" THEN ny - 1 ELSE ny,
             IF kind = "wider" THEN nx + 1
             ELSE IF kind = "narrower" THEN nx - 1 ELSE nx,
             IF kind = "dtype" THEN "uint16" ELSE "uint8", i)

\* A section an earlier job over another stack left behind: right shape,
\* other pixels.
StalePlane(ny, nx) ==
    [ny |-> ny, nx |-> nx, dtype |-> "uint8",
     px |-> [r \in Rows(ny) |-> [c \in Rows(nx) |-> 200 + r + c]]]

\* ------------------------------------------------------ slice assignment
\* img_AP_i[:, i_raw] = img_raw[:, iz]: IndexError when img_raw has no column
\* iz; ValueError unless the column has as many rows as the target, or one
\* row (numpy broadcasts it).
CanAssignAP(img, i_raw, raw, iz) ==
    /\ iz < raw.nx
    /\ i_raw < img.nx
    /\ (raw.ny = img.ny \/ raw.ny = 1)

\* A variant that adds the column to what the image holds.
AssignAP_accumulate(img, i_raw, raw, iz) ==
    [img EXCEPT !.px = [r \in Rows(img.ny) |->
        [img.px[r] EXCEPT ![i_raw] =
            Cast(@ + raw.px[IF raw.ny = 1 THEN 0 ELSE r][iz], img.dtype)]]]

AssignAP(img, i_raw, raw, iz) ==
    [img EXCEPT !.px = [r \in Rows(img.ny) |->
        [img.px[r] EXCEPT ![i_raw] =
            Cast(raw.px[IF raw.ny = 1 THEN 0 ELSE r][iz], img.dtype)]]]

\* img_DV_i[i_raw, :] = img_raw[iz, :]: IndexError when img_raw has no row iz;
\* ValueError unless the row has as many columns as the target, or one.
CanAssignDV(img, i_raw, raw, iz) ==
    /\ iz < raw.ny
    /\ i_raw < img.ny
    /\ (raw.nx = img.nx \/ raw.nx = 1)

\* A variant that fills the rows from the last one up (the script's line 152).
AssignDV_flipped(img, i_raw, raw, iz) ==
    [img EXCEPT !.px[img.ny - i_raw - 1] = [c \in Rows(img.nx) |->
        Cast(raw.px[iz][IF raw.nx = 1 THEN 0 ELSE c], img.dtype)]]

AssignDV(img, i_raw, raw, iz) ==
    [img EXCEPT !.px[i_raw] = [c \in Rows(img.nx) |->
        Cast(raw.px[iz][IF raw.nx = 1 THEN 0 ELSE c], img.dtype)]]

CanAssign(d, img, i_raw, raw, iz) ==
    IF d = "AP" THEN CanAssignAP(img, i_raw, raw, iz)
                ELSE CanAssignDV(img, i_raw, raw, iz)

Assign(d, img, i_raw, raw, iz) ==
    IF d = "AP" THEN AssignAP(img, i_raw, raw, iz)
                ELSE AssignDV(img, i_raw, raw, iz)

\* ------------------------------------------------------------ the script
\* The image generateAP / generateDV starts from: the file when it exists.
acquire(st, d, iz, ny, nx, dtype) ==
    IF st[d][iz] # NoPlane THEN st[d][iz] ELSE zeros(ny, nx, dtype)

\* nz_AP = nx and nz_DV = ny: how many sections direction d has.
nz_of(d, ny, nx) == IF d = "AP" THEN nx ELSE ny

\* (ny_AP, nx_AP) = (ny, nz) and (ny_DV, nx_DV) = (nz, nx).
out_ny(d, nz, ny) == IF d = "AP" THEN ny ELSE nz
out_nx(d, nz, nx) == IF d = "AP" THEN nz ELSE nx

\* Variants: no swap of the arguments; an end index taken as exclusive.
swap_lo_none(s, e) == s
clamp_hi_exclusive(e, nz) == IF e >= nz - 1 THEN nz - 2 ELSE e

\* The swap of the arguments (starti > endi) and the two clamps.
swap_lo(s, e) == IF s > e THEN e ELSE s
swap_hi(s, e) == IF s > e THEN s ELSE e
clamp_lo(s) == IF s < 0 THEN 0 ELSE s
clamp_hi(e, nz) == IF e > nz - 1 THEN nz - 1 ELSE e

AllDirs == {"out", "AP", "DV"}

\* The statements an invocation can be at, and the ways it ends.
CheckPcs == {"check_out", "check_AP", "check_DV"}
MkdirPcs == {"mkdir_out", "mkdir_AP", "mkdir_DV"}
Running == CheckPcs \cup MkdirPcs \cup
           {"probe", "dispatch", "generate", "read", "copy", "write"}
Ended == {"done", "failed", "killed"}

\* The directory a check or mkdir statement is about, and the statement
\* that follows it.
DirOf(pc) ==
    IF pc \in {"check_out", "mkdir_out"} THEN "out"
    ELSE IF pc \in {"check_AP", "mkdir_AP"} THEN "AP" ELSE "DV"

MkdirOf(pc) ==
    IF pc = "check_out" THEN "mkdir_out"
    ELSE IF pc = "check_AP" THEN "mkdir_AP" ELSE "mkdir_DV"

AfterDir(pc) ==
    IF pc \in {"check_out", "mkdir_out"} THEN "probe"
    ELSE IF pc \in {"check_AP", "mkdir_AP"} THEN "check_DV" ELSE "dispatch"

NoArgs == [direction |-> "none", starti |-> 0, endi |-> 0]

\* The script's variables before it has run a statement.
IdleInv ==
    [pc |-> "idle", args |-> NoArgs, direction |-> "none",
     starti |-> 0, endi |-> 0, nz |-> 0, ny |-> 0, nx |-> 0,
     data_type |-> "none", probe_img |-> NoPlane, iz |-> 0, i_raw |-> 0,
     img_out |-> NoPlane, img_raw |-> NoPlane, fresh |-> NoPlane,
     reads |-> <<>>, probes |-> 0, err |-> "none"]

NoRun ==
    [direction |-> "none", starti |-> 0, endi |-> 0, iz |-> 0, pc |-> "none"]

\* What is left of an invocation when its process has ended: where it was.
Exited(v, how, err) ==
    [v EXCEPT !.pc = how, !.err = err, !.probe_img = NoPlane,
              !.img_out = NoPlane, !.img_raw = NoPlane, !.fresh = NoPlane,
              !.i_raw = 0, !.reads = <<>>]

Summary(v) ==
    [direction |-> v.direction, starti |-> v.starti, endi |-> v.endi,
     iz |-> v.iz, pc |-> v.pc]

\* The sections direction d has for the stack in raw_path (1 when it is empty,
\* so that there are arguments to give).
Extent(d) ==
    IF Len(raw_store) = 0 THEN 1
    ELSE nz_of(d, raw_store[1].ny, raw_store[1].nx)

\* Arguments below, inside and above the sections of direction d.
ArgRange(d) == (0 - 1) .. Extent(d)

\* Lines 37-44: parse the arguments, swap them when starti > endi.
Launch(p, d, s, e) ==
    /\ invs[p].pc \in {"idle"} \cup Ended
    /\ invs' = [invs EXCEPT ![p] =
           [IdleInv EXCEPT !.pc = "check_out",
                           !.args = [direction |-> d, starti |-> s, endi |-> e],
                           !.direction = d,
                           !.starti = swap_lo(s, e),
                           !.endi = swap_hi(s, e)]]
    /\ prev' = IF invs[p].pc = "idle" THEN prev ELSE Summary(invs[p])
    /\ launched' = launched + 1
    /\ UNCHANGED <<raw_store, store, stale, dirs>>

\* Lines 50, 107, 110: if not os.path.exists(...).
CheckDir(p) ==
    /\ invs[p].pc \in CheckPcs
    /\ invs' = [invs EXCEPT ![p].pc =
           IF DirOf(@) \in dirs THEN AfterDir(@) ELSE MkdirOf(@)]
    /\ UNCHANGED <<raw_store, store, stale, dirs, prev, launched>>

\* Lines 51, 108, 111: os.mkdir(...), which raises OSError when the directory
\* has come to exist since the check.
MakeDir(p) ==
    /\ invs[p].pc \in MkdirPcs
    /\ IF DirOf(invs[p].pc) \in dirs
       THEN /\ invs' = [invs EXCEPT ![p] = Exited(@, "failed", "OSError")]
            /\ dirs' = dirs
       ELSE /\ invs' = [invs EXCEPT ![p].pc = AfterDir(@)]
            /\ dirs' = dirs \cup {DirOf(invs[p].pc)}
    /\ UNCHANGED <<raw_store, store, stale, prev, launched>>

\* A variant that goes on without a probe when there is no section.
Probe_lenient(p) ==
    /\ invs[p].pc = "probe"
    /\ invs' = [invs EXCEPT ![p] =
           IF Len(raw_store) = 0
           THEN [@ EXCEPT !.pc = "check_AP"]
           ELSE [@ EXCEPT !.pc = "check_AP",
                          !.nz = Len(raw_store),
                          !.probe_img = raw_store[1],
                          !.probes = @ + 1,
                          !.ny = raw_store[1].ny,
                          !.nx = raw_store[1].nx,
                          !.data_type = raw_store[1].dtype]]
    /\ UNCHANGED <<raw_store, store, stale, dirs, prev, launched>>

\* Lines 69-101: list and sort the sections, read img_list[0] for the shape
\* and dtype. img_list[0] raises IndexError when there is no section.
Probe(p) ==
    /\ invs[p].pc = "probe"
    /\ invs' = [invs EXCEPT ![p] =
           IF Len(raw_store) = 0
           THEN Exited(@, "failed", "IndexError")
           ELSE [@ EXCEPT !.pc = "check_AP",
                          !.nz = Len(raw_store),
                          !.probe_img = raw_store[1],
                          !.probes = @ + 1,
                          !.ny = raw_store[1].ny,
                          !.nx = raw_store[1].nx,
                          !.data_type = raw_store[1].dtype]]
    /\ UNCHANGED <<raw_store, store, stale, dirs, prev, launched>>

\* Lines 164-171 / 173-180: clamp starti and endi, enter the xrange loop.
Dispatch(p) ==
    /\ invs[p].pc = "dispatch"
    /\ LET v == invs[p]
           lo == clamp_lo(v.starti)
           hi == clamp_hi(v.endi, nz_of(v.direction, v.ny, v.nx))
       IN invs' = [invs EXCEPT ![p] =
              IF lo > hi
              THEN Exited([@ EXCEPT !.starti = lo, !.endi = hi, !.iz = lo],
                          "done", "none")
              ELSE [@ EXCEPT !.pc = "generate", !.starti = lo, !.endi = hi,
                             !.iz = lo]]
    /\ UNCHANGED <<raw_store, store, stale, dirs, prev, launched>>

\* A variant that takes a section whose file exists as built already.
BeginGenerate_skipExisting(p) ==
    /\ invs[p].pc = "generate"
    /\ LET v == invs[p]
       IN invs' = [invs EXCEPT ![p] =
              IF store[v.direction][v.iz] # NoPlane
              THEN IF v.iz + 1 > v.endi
                   THEN Exited([@ EXCEPT !.iz = v.iz + 1], "done", "none")
                   ELSE [@ EXCEPT !.iz = v.iz + 1]
              ELSE [@ EXCEPT !.pc = "read", !.i_raw = 0, !.reads = <<>>,
                             !.img_out = zeros(out_ny(v.direction, v.nz, v.ny),
                                               out_nx(v.direction, v.nz, v.nx),
                                               v.data_type)]]
    /\ UNCHANGED <<raw_store, store, stale, dirs, prev, launched>>

\* Lines 116-120 / 141-145: read the section's file when there is one,
\* else start from zeros.
BeginGenerate(p) ==
    /\ invs[p].pc = "generate"
    /\ LET v == invs[p]
       IN invs' = [invs EXCEPT ![p] =
              [@ EXCEPT !.pc = "read", !.i_raw = 0, !.reads = <<>>,
                        !.img_out = acquire(store, v.direction, v.iz,
                                            out_ny(v.direction, v.nz, v.ny),
                                            out_nx(v.direction, v.nz, v.nx),
                                            v.data_type)]]
    /\ UNCHANGED <<raw_store, store, stale, dirs, prev, launched>>

\* A variant that reads img_list[0] at every turn of the loop.
ReadRaw_first(p) ==
    /\ invs[p].pc = "read"
    /\ invs' = [invs EXCEPT ![p] =
           [@ EXCEPT !.pc = "copy",
                     !.fresh = raw_store[1],
                     !.reads = Append(@, 0)]]
    /\ UNCHANGED <<raw_store, store, stale, dirs, prev, launched>>

\* Line 124 / 149, right-hand side: io.imread decodes section i_raw; img_raw
\* still names the section read before.
ReadRaw(p) ==
    /\ invs[p].pc = "read"
    /\ invs' = [invs EXCEPT ![p] =
           [@ EXCEPT !.pc = "copy",
                     !.fresh = raw_store[invs[p].i_raw + 1],
                     !.reads = Append(@, invs[p].i_raw)]]
    /\ UNCHANGED <<raw_store, store, stale, dirs, prev, launched>>

\* A variant with io.imsave inside the loop over img_list.
CopySlice_saveEach(p) ==
    /\ invs[p].pc = "copy"
    /\ LET v == invs[p]
           raw == v.fresh
           img == Assign(v.direction, v.img_out, v.i_raw, raw, v.iz)
       IN IF ~CanAssign(v.direction, v.img_out, v.i_raw, raw, v.iz)
          THEN /\ invs' = [invs EXCEPT ![p] = Exited(@, "failed", "NumpyError")]
               /\ store' = store
          ELSE /\ invs' = [invs EXCEPT ![p] =
                      [@ EXCEPT !.pc = IF v.i_raw + 1 < v.nz THEN "read"
                                                             ELSE "write",
                                !.img_raw = raw,
                                !.fresh = NoPlane,
                                !.img_out = img,
                                !.i_raw = @ + 1]]
               /\ store' = [store EXCEPT ![v.direction][v.iz] = img]
    /\ UNCHANGED <<raw_store, stale, dirs, prev, launched>>

\* Line 124 / 149, the binding, and line 131 / 157: the slice assignment,
\* which raises when numpy can neither index nor broadcast.
CopySlice(p) ==
    /\ invs[p].pc = "copy"
    /\ LET v == invs[p]
           raw == v.fresh
       IN invs' = [invs EXCEPT ![p] =
              IF ~CanAssign(v.direction, v.img_out, v.i_raw, raw, v.iz)
              THEN Exited(@, "failed", "NumpyError")
              ELSE [@ EXCEPT !.pc = IF v.i_raw + 1 < v.nz THEN "read"
                                                         ELSE "write",
                             !.img_raw = raw,
                             !.fresh = NoPlane,
                             !.img_out = Assign(v.direction, v.img_out,
                                                v.i_raw, raw, v.iz),
                             !.i_raw = @ + 1]]
    /\ UNCHANGED <<raw_store, store, stale, dirs, prev, launched>>

\* Line 136 / 162: io.imsave, then the return of generateAP / generateDV and
\* the next turn of the xrange loop.
WriteImage(p) ==
    /\ invs[p].pc = "write"
    /\ LET v == invs[p]
       IN /\ store' = [store EXCEPT ![v.direction][v.iz] = v.img_out]
          /\ invs' = [invs EXCEPT ![p] =
                 IF v.iz + 1 > v.endi
                 THEN Exited([@ EXCEPT !.iz = v.iz + 1], "done", "none")
                 ELSE [@ EXCEPT !.pc = "generate", !.iz = v.iz + 1,
                                !.i_raw = 0, !.reads = <<>>,
                                !.img_out = NoPlane, !.img_raw = NoPlane]]
    /\ UNCHANGED <<raw_store, stale, dirs, prev, launched>>

\* io.imread raises (lines 87, 118 / 143, 124 / 149): nothing catches it.
ReadFail(p) ==
    /\ \/ invs[p].pc = "probe" /\ Len(raw_store) > 0
       \/ invs[p].pc = "generate"
            /\ store[invs[p].direction][invs[p].iz] # NoPlane
       \/ invs[p].pc = "read"
    /\ invs' = [invs EXCEPT ![p] = Exited(@, "failed", "IOError")]
    /\ UNCHANGED <<raw_store, store, stale, dirs, prev, launched>>

\* io.imsave raises (line 136 / 162): nothing catches it.
WriteFail(p) ==
    /\ invs[p].pc = "write"
    /\ invs' = [invs EXCEPT ![p] = Exited(@, "failed", "IOError")]
    /\ UNCHANGED <<raw_store, store, stale, dirs, prev, launched>>

\* The process is stopped from outside, between two statements.
Interrupt(p) ==
    /\ invs[p].pc \in Running
    /\ invs' = [invs EXCEPT ![p] = Exited(@, "killed", "none")]
    /\ UNCHANGED <<raw_store, store, stale, dirs, prev, launched>>

\* ---------------------------------------------------------- initial states
\* out_path before the first invocation: the first k sections of both
\* directions are there already, with the shape this stack gives them.
InitStore(imgs, k) ==
    LET n == Len(imgs)
        ny == IF n = 0 THEN 0 ELSE imgs[1].ny
        nx == IF n = 0 THEN 0 ELSE imgs[1].nx
    IN [d \in Directions |->
          [iz \in Rows(IF d = "AP" THEN MaxW ELSE MaxH) |->
              IF n > 0 /\ iz < k /\ iz < nz_of(d, ny, nx)
              THEN StalePlane(out_ny(d, n, ny), out_nx(d, n, nx))
              ELSE NoPlane]]

\* Nothing has run: out_path holds the k sections, or does not exist yet.
InitRest(k) ==
    /\ stale = k
    /\ store = InitStore(raw_store, k)
    /\ dirs \in (IF k = 0 THEN {{}, AllDirs} ELSE {AllDirs})
    /\ invs = [p \in Procs |-> IdleInv]
    /\ prev = NoRun
    /\ launched = 0

Init ==
    \E n \in 0 .. MaxN, ny \in 1 .. MaxH, nx \in 1 .. MaxW, k \in 0 .. MaxStale :
        /\ raw_store = Stack(n, ny, nx)
        /\ InitRest(k)

\* One invocation, free to fail or to be stopped.
LaunchFirst(p) ==
    \E d \in Directions : \E s, e \in ArgRange(d) :
        invs[p].pc = "idle" /\ Launch(p, d, s, e)

Next ==
    \/ LaunchFirst(1)
    \/ CheckDir(1)
    \/ MakeDir(1)
    \/ Probe(1)
    \/ Dispatch(1)
    \/ BeginGenerate(1)
    \/ ReadRaw(1)
    \/ CopySlice(1)
    \/ WriteImage(1)
    \/ ReadFail(1)
    \/ WriteFail(1)
    \/ Interrupt(1)

Spec == Init /\ [][Next]_vars

\* One invocation after another in one direction, each free to be stopped:
\* the job is run again when it has ended, over the same range or another.
\* The arguments come in order (Spec has them in both orders).
InitSeq ==
    \E n \in 1 .. MaxN, ny \in 1 .. MaxH, nx \in 1 .. MaxW, k \in 0 .. MaxStale :
        /\ raw_store = Stack(n, ny, nx)
        /\ InitRest(k)

LaunchRange(p) ==
    \E d \in Directions : \E s, e \in ArgRange(d) :
        /\ s <= e
        /\ invs[p].pc = "idle"
        /\ Launch(p, d, s, e)

Relaunch(p) ==
    \E s, e \in ArgRange(invs[p].direction) :
        /\ s <= e
        /\ invs[p].pc \in Ended
        /\ launched < MaxRuns
        /\ Launch(p, invs[p].direction, s, e)

NextSeq ==
    \/ LaunchRange(1)
    \/ Relaunch(1)
    \/ CheckDir(1)
    \/ MakeDir(1)
    \/ Probe(1)
    \/ Dispatch(1)
    \/ BeginGenerate(1)
    \/ ReadRaw(1)
    \/ CopySlice(1)
    \/ WriteImage(1)
    \/ Interrupt(1)

SpecSeq == InitSeq /\ [][NextSeq]_vars

\* A stack in which one section after the first differs from the others.
InitShape ==
    \E n \in 2 .. MaxN, i \in 1 .. (MaxN - 1), kind \in Kinds, k \in 0 .. MaxStale :
        /\ i < n
        /\ (kind = "shorter" => MaxH > 1)
        /\ (kind = "narrower" => MaxW > 1)
        /\ raw_store = [Stack(n, MaxH, MaxW) EXCEPT
                           ![i + 1] = Deviant(kind, MaxH, MaxW, i)]
        /\ InitRest(k)

SpecShape == InitShape /\ [][Next]_vars

\* Invocations side by side, over ranges that share no section of one
\* direction; none fails by I/O, none is stopped.
Overlap(d, s, e, v) ==
    /\ v.pc # "idle"
    /\ v.args.direction = d
    /\ ~(e < v.args.starti \/ v.args.endi < s)

LaunchConc(p) ==
    \E d \in Directions : \E s, e \in Rows(Extent(d)) :
        /\ s <= e
        /\ invs[p].pc = "idle"
        /\ \A q \in Procs \ {p} : ~Overlap(d, s, e, invs[q])
        /\ Launch(p, d, s, e)

InitConc ==
    \E k \in 0 .. MaxStale :
        /\ raw_store = Stack(MaxN, MaxH, MaxW)
        /\ InitRest(k)

NextConc ==
    \E p \in Procs :
        \/ LaunchConc(p)
        \/ CheckDir(p)
        \/ MakeDir(p)
        \/ Probe(p)
        \/ Dispatch(p)
        \/ BeginGenerate(p)
        \/ ReadRaw(p)
        \/ CopySlice(p)
        \/ WriteImage(p)

SpecConc == InitConc /\ [][NextConc]_vars

\* ================================================================ claims
\* What the claims speak of, written from their words.
N == Len(raw_store)
H == raw_store[1].ny
W == raw_store[1].nx
MaxIz(d) == IF d = "AP" THEN W - 1 ELSE H - 1
Max2(a, b) == IF a > b THEN a ELSE b
Min2(a, b) == IF a < b THEN a ELSE b
Clamp(x, lo, hi) == Max2(lo, Min2(x, hi))

\* The invocation of the jobs that run one after another.
inv == invs[1]
ReqLo == Min2(inv.args.starti, inv.args.endi)
ReqHi == Max2(inv.args.starti, inv.args.endi)

\* Section iz of direction d as the axis permutation gives it:
\* AP[iz][r][i] = src[i][r][iz], DV[iz][i][c] = src[i][iz][c].
ExpectedPlane(d, iz) ==
    IF d = "AP"
    THEN [ny |-> H, nx |-> N, dtype |-> raw_store[1].dtype,
          px |-> [r \in Rows(H) |-> [i \in Rows(N) |->
                     raw_store[i + 1].px[r][iz]]]]
    ELSE [ny |-> N, nx |-> W, dtype |-> raw_store[1].dtype,
          px |-> [i \in Rows(N) |-> [c \in Rows(W) |->
                     raw_store[i + 1].px[iz][c]]]]

\* out_path as it was before the first invocation.
Store0 == InitStore(raw_store, stale)

\* out_path when exactly the sections lo .. hi of direction d have been
\* built since.
Built(d, lo, hi) ==
    [dd \in Directions |-> [iz \in DOMAIN Store0[dd] |->
        IF dd = d /\ lo <= iz /\ iz <= hi
        THEN ExpectedPlane(d, iz) ELSE Store0[dd][iz]]]

\* The second run asks for the range the first, finished run was over.
SameRangeAgain ==
    /\ launched = 2 /\ N >= 1
    /\ prev.pc = "done"
    /\ prev.direction = inv.direction
    /\ prev.starti = Max2(ReqLo, 0)
    /\ prev.endi = Min2(ReqHi, MaxIz(inv.direction))

\* Section iz of direction d is in the range of some invocation.
InSomeRange(d, iz) ==
    \E p \in Procs :
        /\ invs[p].args.direction = d
        /\ invs[p].args.starti <= iz
        /\ iz <= invs[p].args.endi

OneAfterAnother ==
    [d \in Directions |-> [iz \in DOMAIN Store0[d] |->
        IF InSomeRange(d, iz) THEN ExpectedPlane(d, iz) ELSE Store0[d][iz]]]

\* The decoded images an invocation holds: the names probe_img and img_raw,
\* the image io.imread has returned and img_raw does not name yet; img_out.
HeldSources ==
    Cardinality({x \in {"probe_img", "img_raw", "fresh"} : inv[x] # NoPlane})
HeldOutputs == IF inv.img_out # NoPlane THEN 1 ELSE 0

\* C1: after a run over the full range [0, maxIz] of a stack of N >= 1
\* sections of one shape, out_path holds for every iz in 0 .. maxIz one
\* section of the shape H x N (AP) or N x W (DV) whose every pixel is the
\* source pixel of the axis permutation, and no section beyond maxIz.
C1_FullReslice ==
    (/\ inv.pc = "done"
     /\ N >= 1
     /\ inv.args.starti = 0
     /\ inv.args.endi = MaxIz(inv.direction))
    => \A iz \in DOMAIN store[inv.direction] :
          store[inv.direction][iz] =
              IF iz <= MaxIz(inv.direction)
              THEN ExpectedPlane(inv.direction, iz) ELSE NoPlane

\* C1, witness: a finished DV run over the full range of a full-size stack,
\* one section of which was there before.
C1_Witness ==
    /\ inv.pc = "done"
    /\ N = MaxN /\ H >= 2 /\ W >= 2
    /\ stale >= 1
    /\ inv.direction = "DV"
    /\ inv.args.starti = 0
    /\ inv.args.endi = MaxIz("DV")

\* C2, as claimed: a finished run has built exactly the sections
\* clamp(start, 0, maxIz) .. clamp(end, 0, maxIz), after the swap.
C2_ClampBothEnds ==
    (inv.pc = "done" /\ launched = 1 /\ N >= 1)
    => store = Built(inv.direction,
                     Clamp(ReqLo, 0, MaxIz(inv.direction)),
                     Clamp(ReqHi, 0, MaxIz(inv.direction)))

\* C2, amended: after the swap the script raises the start to 0 and lowers
\* the end to maxIz, and builds exactly the sections max(start, 0) ..
\* min(end, maxIz): the part of the request inside 0 .. maxIz, which is no
\* section at all when both arguments lie below 0 or both above maxIz. It
\* raises no error.
C2_ClampEachEnd ==
    (launched = 1 /\ N >= 1)
    => /\ inv.err \notin {"IndexError", "NumpyError", "OSError"}
       /\ inv.pc = "done"
            => store = Built(inv.direction, Max2(ReqLo, 0),
                             Min2(ReqHi, MaxIz(inv.direction)))

\* C2, witness: a finished run whose arguments came in the wrong order, from
\* below 0 to above maxIz.
C2_Witness ==
    /\ inv.pc = "done" /\ launched = 1 /\ N >= 2
    /\ inv.args.starti > inv.args.endi
    /\ ReqLo < 0
    /\ ReqHi > MaxIz(inv.direction)
    /\ MaxIz(inv.direction) >= 1
    /\ stale >= 1

\* C3: a run over a range that follows a finished run over the same range
\* leaves out_path as the first run left it; it starts every section from the
\* one the first run wrote and ends it with the same pixels.
C3_Idempotent ==
    /\ (launched = 1 /\ N >= 1 /\ inv.pc = "done")
        => store = Built(inv.direction, inv.starti, inv.endi)
    /\ (SameRangeAgain /\ inv.pc = "done")
        => store = Built(inv.direction, inv.starti, inv.endi)
    /\ (SameRangeAgain /\ inv.pc \in {"read", "copy"} /\ inv.i_raw = 0)
        => inv.img_out = ExpectedPlane(inv.direction, inv.iz)
    /\ (SameRangeAgain /\ inv.pc = "write")
        => inv.img_out = ExpectedPlane(inv.direction, inv.iz)

\* C3, witness: the second of two finished runs over one range of two
\* sections or more.
C3_Witness ==
    /\ SameRangeAgain /\ inv.pc = "done"
    /\ N >= 2
    /\ inv.starti < inv.endi

\* C4: a finished run over [0, k] followed by a finished run over
\* [k + 1, maxIz] leaves out_path as one finished run over [0, maxIz] does.
C4_Partition ==
    /\ (/\ launched = 1 /\ N >= 1 /\ inv.pc = "done"
        /\ inv.args.starti = 0 /\ inv.args.endi = MaxIz(inv.direction))
        => store = Built(inv.direction, 0, MaxIz(inv.direction))
    /\ (/\ launched = 2 /\ N >= 1 /\ inv.pc = "done" /\ prev.pc = "done"
        /\ prev.direction = inv.direction
        /\ prev.starti = 0 /\ prev.endi >= 0
        /\ prev.endi < MaxIz(inv.direction)
        /\ inv.args.starti = prev.endi + 1
        /\ inv.args.endi = MaxIz(inv.direction))
        => store = Built(inv.direction, 0, MaxIz(inv.direction))

\* C4, witness: a finished run over [k + 1, maxIz] after a finished run over
\* [0, k].
C4_Witness ==
    /\ launched = 2 /\ N >= 2 /\ inv.pc = "done" /\ prev.pc = "done"
    /\ prev.direction = inv.direction
    /\ prev.starti = 0 /\ prev.endi >= 0
    /\ inv.args.starti = prev.endi + 1
    /\ inv.args.starti <= inv.args.endi
    /\ inv.args.endi = MaxIz(inv.direction)
    /\ stale >= 1

C7_InconsistentRejected == store = Store0

\* C8, as claimed: when invocations over ranges that share no section have
\* all ended, each has finished and out_path holds what they build one after
\* another: every section of their ranges, the rest as before.
C8_ConcurrentAsSequential ==
    (\A p \in Procs : invs[p].pc \in Ended)
    => /\ \A p \in Procs : invs[p].pc = "done"
       /\ store = OneAfterAnother

\* C9: with no source section the run fails at the probe, with the
\* IndexError of img_list[0]: it never comes to the loop and out_path holds
\* no section it did not hold before.
C9_EmptyStack ==
    (N = 0)
    => /\ inv.pc \in {"idle", "check_out", "mkdir_out", "probe",
                      "failed", "killed"}
       /\ inv.pc = "failed" => inv.err = "IndexError"
       /\ store = Store0

\* C9, witness: a run over no section that has failed at the probe.
C9_Witness ==
    /\ N = 0 /\ inv.pc = "failed" /\ inv.err = "IndexError" /\ launched = 1

\* C10, as claimed: never more than one decoded source section and one
\* output section in memory.
C10_OneSourceHeld == HeldSources <= 1 /\ HeldOutputs <= 1

\* C10, amended: the script holds at most three decoded source sections (the
\* probe, which it keeps for the whole run, the section read last and, while
\* the next is read, the one before it) and one output section; it reads the
\* probe once, and for every output section the sections 0 .. N-1 once each,
\* in order.
C10_BoundedMemory ==
    /\ HeldSources <= 3 /\ HeldOutputs <= 1
    /\ inv.probes <= 1
    /\ inv.pc \in Running \ {"check_out", "mkdir_out", "probe"}
        => inv.probes = 1 /\ inv.probe_img = raw_store[1]
    /\ inv.pc = "copy"
        => /\ inv.fresh = raw_store[inv.i_raw + 1]
           /\ inv.reads = [k \in 1 .. (inv.i_raw + 1) |-> k - 1]
    /\ inv.pc \in {"read", "write"}
        => inv.reads = [k \in 1 .. inv.i_raw |-> k - 1]
    /\ inv.pc = "write" => Len(inv.reads) = N

\* C10, witness: three decoded source sections and the output section held
\* at once.
C10_Witness == HeldSources = 3 /\ HeldOutputs = 1 /\ inv.pc = "copy"

====
